---- MODULE Spec2Model ----
(***************************************************************************)
(* Coordination layer of the LensAI news bot: the Firestore-backed lock     *)
(* (functions/distributed_lock.py), the rate limiter                        *)
(* (functions/rate_limiter.py) and the digest cache (functions/cache.py),   *)
(* used by concurrently running, stateless handler instances.               *)
(*                                                                         *)
(* Time is the wall clock in seconds; the model advances it in steps of     *)
(* TickStep.  The store is one variable per collection; storeUp says        *)
(* whether a store call issued now succeeds or raises.                      *)
(***************************************************************************)
EXTENDS Integers, Naturals, Sequences, FiniteSets, TLC

\* ---------------------------------------------------------------- bounds
NumProcs == 2
NumUsers == 1
TickStep == 150
MaxTime == 300
MaxChecks == 6
NumSubjects == 2
SubPerSec == 2

Procs == 1..NumProcs
Users == 1..NumUsers
Subjects == 1..NumSubjects

\* telegram_id of the update a handler instance is serving
UserOf(p) == ((p - 1) % NumUsers) + 1

\* ------------------------------------------------------- program constants
\* ttl_seconds passed by both call sites of DistributedLock
LOCK_TTL == 300
\* ttl_minutes passed by the call site of set_cached_digest
CACHE_TTL_MINUTES == 15

Actions == {"news", "other"}

\* LIMITS table of rate_limiter.py; an unknown action gets LIMITS['default']
LIMITS(action) ==
    CASE action = "news"   -> [max |-> 5,  window |-> 300]
      [] action = "search" -> [max |-> 10, window |-> 60]
      [] OTHER             -> [max |-> 30, window |-> 60]

Digests == {"d1", "d2"}

\* values of ttl_minutes: positive ones, and all that set_cached_digest
\* accepts
CacheTtls == {5, CACHE_TTL_MINUTES}
AnyTtls == CacheTtls \cup {0}

\* ------------------------------------------------------------------ state
VARIABLES
    clock,      \* wall clock (datetime.utcnow() / time.time()), whole seconds
    sub,        \* its fraction of a second, in units of 1 / SubPerSec
    txn,        \* the most recent run of the transaction update_rate_limit:
                \* its inputs, the document it read and what it returned
    setting,    \* per handler instance, the set_cached_digest call it is in:
                \* its arguments and the time.time() it read
    cacheCall,  \* the most recently returned call of cache.py
    storeUp,    \* TRUE: store calls succeed; FALSE: they raise
    locks,      \* collection 'locks': lock id (one per user) -> document
    rate,       \* collection 'rate_limits': <<user, action>> -> document
    cache,      \* document cache/news_digest
    pc,         \* position of each handler instance in acquire / release
    db,         \* self.db of the instance's lock: TRUE client, FALSE None
    snap,       \* lock_doc read by the instance's acquire
    now,        \* `now` computed by the instance's acquire
    last,       \* outcome of the most recently returned primitive call
    interfered, \* history: another write hit the lock document after this
                \* instance's read and before its write
    healed,     \* history: at this instance's read, ttl had elapsed since
                \* every earlier successful acquire on the lock id
    live,       \* history: per lock id, expiry of the grant that is still
                \* unreleased and unexpired (0: none)
    writer,     \* history: per lock id, the instance that wrote the record
                \* now stored (0: none)
    healAt,     \* history: per lock id, latest (return time + ttl) over the
                \* acquires that returned True (0 once that time is reached)
    series,     \* history: per <<user, action>>, the check_rate_limit calls
                \* made with the store reachable since the first of them,
                \* while less than window seconds have passed since it
    handler,    \* per handler instance, the news_command / refresh_callback
                \* run it is in: its position and what it has done so far
    started,    \* history: per user, the digest generations started since
                \* the first of them, while less than the limiter's window
                \* has passed since it
    web,        \* the telegram_webhook invocation under way
    retry       \* the call of a function wrapped by retry_with_backoff
                \* under way: the decorator's arguments, the wrapper's
                \* locals and, as history, the invocations and sleeps made

vars == <<clock, sub, txn, setting, cacheCall, storeUp, locks, rate, cache, pc, db, snap, now, last,
          interfered, healed, live, writer, healAt, series, handler, started,
          web, retry>>

\* what the primitives and the environment leave alone
hvars == <<handler, started, web, retry>>

NoDoc == [exists |-> FALSE]

\* how the field a reader compares (expires_at, timestamps) is stored: "ok"
\* as the program writes it, "missing" absent, "junk" of another type
Shape(doc) == IF "shape" \in DOMAIN doc THEN doc.shape ELSE "ok"

Malformed(doc) == doc.exists /\ Shape(doc) # "ok"

LockDocNoTtl(u, exp) == [exists |-> TRUE, user_id |-> u, expires_at |-> exp - LOCK_TTL]

\* document written by DistributedLock.acquire (lock_name is the same at
\* every call site and acquired_at is never read back)
LockDoc(u, exp) == [exists |-> TRUE, user_id |-> u, expires_at |-> exp]


\* value returned to the caller by one primitive call.  val is the Python
\* return value ("True", "False", "None", a digest), msg the second tuple
\* component of check_rate_limit (the text and the number formatted into it), raised whether an exception escaped,
\* failed whether the call met a missing client or a failing store call and
\* at which one ("client", "get", "set", "delete", "query", "transaction";
\* "decorator" and "record" are exceptions that are not store failures:
\* the decorator of check_rate_limit, a stored field of another type),
\* wrote whether it changed the store.  The remaining fields are history of
\* a returned acquire or release: the grant overlapped a live one; ttl had
\* elapsed since every earlier grant when it read; its read was overtaken by
\* a write; the record it read existed; the record release deleted was
\* unexpired and written by another instance.
Ret(op, u, val, msg, raised, at, wrote) ==
    [op |-> op, user |-> u, val |-> val, msg |-> msg, raised |-> raised,
     failed |-> at \notin {"", "decorator", "record"}, at |-> at,
     wrote |-> wrote,
     overlap |-> FALSE, healed |-> FALSE, interfered |-> FALSE,
     sawRec |-> FALSE, foreign |-> FALSE]

NoMsg == [text |-> "", n |-> 0]

NoSeries == [t0 |-> 0, res |-> <<>>]

\* no transaction has run
NoTxn == [user |-> 0, action |-> "", now_ts |-> 0, read |-> NoDoc,
          allowed |-> FALSE, result |-> 0, raised |-> FALSE,
          after_reset |-> FALSE, prev_denied |-> FALSE]

NoCall == Ret("none", 0, "None", NoMsg, FALSE, "", FALSE)

Max(a, b) == IF a >= b THEN a ELSE b

\* get_firestore_client(): the client, or None when building it raises.
\* TRUE stands for a client, FALSE for None.
get_firestore_client == IF storeUp THEN {TRUE} ELSE {TRUE, FALSE}

\* ---------------------------------------------------------- DistributedLock

LockValidInclusive(doc, t) ==
    doc.exists /\ Shape(doc) = "ok" /\ doc.expires_at >= t

\* `lock_doc.exists and lock_expires and lock_expires > now`
LockValid(doc, t) == doc.exists /\ Shape(doc) = "ok" /\ doc.expires_at > t

\* `lock_expires.replace(tzinfo=None)` on a value that is no datetime raises
ReplaceRaises(doc) == doc.exists /\ Shape(doc) = "junk"

AcquireOnErrorClosed == [val |-> "False", raised |-> FALSE]

\* `except Exception` of acquire: print, return True
AcquireOnError == [val |-> "True", raised |-> FALSE]

\* `except Exception` of release: print, fall off the end
ReleaseOnError == [val |-> "None", raised |-> FALSE]

ReleaseDeletesExpired(doc, u) == doc.exists /\ doc.expires_at <= clock

\* release(): lock_ref.delete(), whatever the document holds
ReleaseDeletes(doc, u) == TRUE

\* the other instances that have read the lock document of u and have not
\* yet written it
MidAcquire(p, u) ==
    {q \in Procs \ {p} : UserOf(q) = u /\ pc[q] \in {"acq_check", "acq_set"}}

Interfere(p, u) ==
    [q \in Procs |-> IF q \in MidAcquire(p, u) THEN TRUE ELSE interfered[q]]

\* locals of an instance that is not inside acquire / holding the lock
Forget(f, p, v) == [f EXCEPT ![p] = v]

\* lock = DistributedLock('news_generation', telegram_id, ttl_seconds=300)
Construct(p) ==
    /\ pc[p] = "idle"
    /\ \E c \in get_firestore_client : db' = [db EXCEPT ![p] = c]
    /\ pc' = [pc EXCEPT ![p] = "acq_get"]
    /\ UNCHANGED <<clock, sub, txn, setting, cacheCall, storeUp, locks, rate, cache, snap, now, last,
                   interfered, healed, live, writer, healAt, series>>

\* acquire(), first part: `if not self.db: return True`, then lock_ref.get()
AcquireGet(p) ==
    /\ pc[p] = "acq_get"
    /\ IF ~db[p]
       THEN /\ pc' = [pc EXCEPT ![p] = "holding"]
            /\ healAt' = [healAt EXCEPT ![UserOf(p)] = Max(@, clock + LOCK_TTL)]
            /\ last' = Ret("acquire", UserOf(p), "True", NoMsg, FALSE, "client", FALSE)
            /\ UNCHANGED <<snap, healed>>
       ELSE IF ~storeUp
       THEN /\ pc' = [pc EXCEPT ![p] = IF AcquireOnError.val = "True" /\ ~AcquireOnError.raised
                                       THEN "holding" ELSE "idle"]
            /\ healAt' = [healAt EXCEPT ![UserOf(p)] =
                            IF AcquireOnError.val = "True" /\ ~AcquireOnError.raised
                            THEN Max(@, clock + LOCK_TTL) ELSE @]
            /\ last' = Ret("acquire", UserOf(p), AcquireOnError.val, NoMsg,
                           AcquireOnError.raised, "get", FALSE)
            /\ UNCHANGED <<snap, healed>>
       ELSE /\ snap' = [snap EXCEPT ![p] = locks[UserOf(p)]]
            /\ healed' = [healed EXCEPT ![p] = clock >= healAt[UserOf(p)]]
            /\ pc' = [pc EXCEPT ![p] = "acq_check"]
            /\ UNCHANGED <<last, healAt>>
    /\ UNCHANGED <<clock, sub, txn, setting, cacheCall, storeUp, locks, rate, cache, db, now,
                   interfered, live, writer, series>>

\* acquire(), second part: now = utcnow(); return False on a valid record
AcquireCheck(p) ==
    /\ pc[p] = "acq_check"
    /\ IF ReplaceRaises(snap[p])
       THEN /\ pc' = [pc EXCEPT ![p] =
                         IF AcquireOnError.val = "True"
                            /\ ~AcquireOnError.raised
                         THEN "holding" ELSE "idle"]
            /\ healAt' = [healAt EXCEPT ![UserOf(p)] =
                            IF AcquireOnError.val = "True"
                               /\ ~AcquireOnError.raised
                            THEN Max(@, clock + LOCK_TTL) ELSE @]
            /\ last' = [Ret("acquire", UserOf(p), AcquireOnError.val, NoMsg,
                            AcquireOnError.raised, "record", FALSE)
                        EXCEPT !.sawRec = TRUE]
            /\ snap' = Forget(snap, p, NoDoc)
            /\ healed' = Forget(healed, p, FALSE)
            /\ interfered' = Forget(interfered, p, FALSE)
            /\ UNCHANGED <<now, db>>
       ELSE IF LockValid(snap[p], clock)
       THEN /\ pc' = [pc EXCEPT ![p] = "idle"]
            /\ last' = [Ret("acquire", UserOf(p), "False", NoMsg, FALSE, "",
                            FALSE)
                        EXCEPT !.healed = healed[p],
                               !.interfered = interfered[p],
                               !.sawRec = snap[p].exists]
            /\ snap' = Forget(snap, p, NoDoc)
            /\ healed' = Forget(healed, p, FALSE)
            /\ interfered' = Forget(interfered, p, FALSE)
            /\ db' = Forget(db, p, TRUE)
            /\ UNCHANGED <<now, healAt>>
       ELSE /\ pc' = [pc EXCEPT ![p] = "acq_set"]
            /\ now' = [now EXCEPT ![p] = clock]
            /\ UNCHANGED <<last, snap, healed, interfered, db, healAt>>
    /\ UNCHANGED <<clock, sub, txn, setting, cacheCall, storeUp, locks, rate,
                   cache, live, writer, series>>

\* acquire(), third part: lock_ref.set({... expires_at}); return True
AcquireSet(p) ==
    /\ pc[p] = "acq_set"
    /\ IF storeUp
       THEN /\ locks' = [locks EXCEPT ![UserOf(p)] =
                           LockDoc(UserOf(p), now[p] + LOCK_TTL)]
            /\ pc' = [pc EXCEPT ![p] = "holding"]
            /\ interfered' = Forget(Interfere(p, UserOf(p)), p, FALSE)
            /\ live' = [live EXCEPT ![UserOf(p)] = now[p] + LOCK_TTL]
            /\ healAt' = [healAt EXCEPT ![UserOf(p)] = Max(@, clock + LOCK_TTL)]
            /\ writer' = [writer EXCEPT ![UserOf(p)] = p]
            /\ last' = [Ret("acquire", UserOf(p), "True", NoMsg, FALSE, "", TRUE)
                        EXCEPT !.overlap = clock < live[UserOf(p)],
                               !.healed = healed[p],
                               !.interfered = interfered[p],
                               !.sawRec = snap[p].exists]
       ELSE /\ pc' = [pc EXCEPT ![p] = IF AcquireOnError.val = "True" /\ ~AcquireOnError.raised
                                       THEN "holding" ELSE "idle"]
            /\ healAt' = [healAt EXCEPT ![UserOf(p)] =
                            IF AcquireOnError.val = "True" /\ ~AcquireOnError.raised
                            THEN Max(@, clock + LOCK_TTL) ELSE @]
            /\ last' = Ret("acquire", UserOf(p), AcquireOnError.val, NoMsg,
                           AcquireOnError.raised, "set", FALSE)
            /\ interfered' = Forget(interfered, p, FALSE)
            /\ UNCHANGED <<locks, live, writer>>
    /\ snap' = Forget(snap, p, NoDoc)
    /\ now' = Forget(now, p, 0)
    /\ healed' = Forget(healed, p, FALSE)
    /\ UNCHANGED <<clock, sub, txn, setting, cacheCall, storeUp, rate, cache, db, series>>

\* release(), called by the instance whose acquire returned True
Release(p) ==
    /\ pc[p] = "holding"
    /\ pc' = [pc EXCEPT ![p] = "idle"]
    /\ IF ~db[p]
       THEN /\ last' = Ret("release", UserOf(p), "None", NoMsg, FALSE, "client",
                           FALSE)
            /\ UNCHANGED <<locks, interfered, live, writer>>
       ELSE IF ~storeUp
       THEN /\ last' = Ret("release", UserOf(p), ReleaseOnError.val, NoMsg,
                           ReleaseOnError.raised, "delete", FALSE)
            /\ UNCHANGED <<locks, interfered, live, writer>>
       ELSE /\ IF ReleaseDeletes(locks[UserOf(p)], UserOf(p))
               THEN /\ locks' = [locks EXCEPT ![UserOf(p)] = NoDoc]
                    /\ live' = [live EXCEPT ![UserOf(p)] = 0]
                    /\ writer' = [writer EXCEPT ![UserOf(p)] = 0]
                    /\ interfered' = Interfere(p, UserOf(p))
               ELSE UNCHANGED <<locks, interfered, live, writer>>
            /\ last' = [Ret("release", UserOf(p), "None", NoMsg, FALSE, "", TRUE)
                        EXCEPT !.sawRec = locks[UserOf(p)].exists,
                               !.foreign = /\ LockValid(locks[UserOf(p)], clock)
                                           /\ writer[UserOf(p)] # p]
    /\ db' = Forget(db, p, TRUE)
    /\ UNCHANGED <<clock, sub, txn, setting, cacheCall, storeUp, rate, cache, snap, now, healed, healAt,
                   series>>

IsLockedOnErrorLocked == [val |-> "True", raised |-> FALSE]

\* is_locked(lock_name, user_id): `except Exception: return False`
IsLockedOnError == [val |-> "False", raised |-> FALSE]

\* is_locked(lock_name, user_id)
IsLocked(u) ==
    /\ \E c \in get_firestore_client :
          last' = IF ~c
                  THEN Ret("is_locked", u, "False", NoMsg, FALSE, "client",
                           FALSE)
                  ELSE IF ~storeUp
                  THEN Ret("is_locked", u, IsLockedOnError.val, NoMsg,
                           IsLockedOnError.raised, "get", FALSE)
                  ELSE IF ReplaceRaises(locks[u])
                  THEN Ret("is_locked", u, IsLockedOnError.val, NoMsg,
                           IsLockedOnError.raised, "record", FALSE)
                  ELSE Ret("is_locked", u,
                           IF LockValid(locks[u], clock) THEN "True"
                                                         ELSE "False",
                           NoMsg, FALSE, "", FALSE)
    /\ UNCHANGED <<clock, sub, txn, setting, cacheCall, storeUp, locks, rate, cache, pc, db, snap,
                   now, interfered, healed, live, writer, healAt, series>>

\* ------------------------------------------------------------ rate limiter

\* document written by update_rate_limit (updated_at is never read back)
RateDoc(ts, u, a) ==
    [exists |-> TRUE, timestamps |-> ts, user_id |-> u, action |-> a]

MinOf(ts) == CHOOSE x \in {ts[i] : i \in 1..Len(ts)} :
                \A i \in 1..Len(ts) : x <= ts[i]

\* time.time(): seconds as a float, here counted in units of 1 / SubPerSec
time_time == clock * SubPerSec + sub

\* a number of whole seconds as a time.time() difference
Seconds(n) == n * SubPerSec

int_round_up(x) == (x + SubPerSec - 1) \div SubPerSec

\* int(x) of a non-negative time.time() difference x: its whole seconds
int(x) == x \div SubPerSec

\* `data.get('timestamps', [])` of a document, [] when there is none
Stamps(doc) ==
    IF doc.exists /\ Shape(doc) = "ok" THEN doc.timestamps ELSE <<>>

\* iterating or comparing a `timestamps` value that is no list of numbers
\* raises
TimestampsRaise(doc) == doc.exists /\ Shape(doc) = "junk"

RecentClosed(doc, window_start) ==
    SelectSeq(Stamps(doc), LAMBDA ts : ts >= window_start)

\* `[ts for ts in data.get('timestamps', []) if ts > window_start]`
Recent(doc, window_start) ==
    SelectSeq(Stamps(doc), LAMBDA ts : ts > window_start)

limit_reached_strict(current_count, a) == current_count > LIMITS(a).max

\* `current_count >= max_requests`
limit_reached(current_count, a) == current_count >= LIMITS(a).max

\* the decision taken on the pruned list, the new timestamp appended to the
\* stored one
update_rate_limit_keep_stale(doc, now_ts, u, a) ==
    LET window_start == now_ts - Seconds(LIMITS(a).window)
        timestamps == Recent(doc, window_start)
    IN  IF TimestampsRaise(doc)
        THEN [allowed |-> FALSE, result |-> 0, doc |-> doc, raised |-> TRUE]
        ELSE IF limit_reached(Len(timestamps), a)
        THEN [allowed |-> FALSE,
              result |-> IF Len(timestamps) > 0
                         THEN int(MinOf(timestamps)
                                  + Seconds(LIMITS(a).window) - now_ts)
                         ELSE LIMITS(a).window,
              doc |-> doc, raised |-> FALSE]
        ELSE [allowed |-> TRUE,
              result |-> LIMITS(a).max - (Len(timestamps) + 1),
              doc |-> RateDoc(Append(Stamps(doc), now_ts), u, a),
              raised |-> FALSE]

\* update_rate_limit(transaction, doc_ref): the body of the transaction.
\* Returns the pair (allowed, result) and the document to write (the one
\* read when the transaction writes nothing), or raises.
update_rate_limit(doc, now_ts, u, a) ==
    LET window_start == now_ts - Seconds(LIMITS(a).window)
        timestamps == Recent(doc, window_start)
    IN  IF TimestampsRaise(doc)
        THEN [allowed |-> FALSE, result |-> 0, doc |-> doc, raised |-> TRUE]
        ELSE IF limit_reached(Len(timestamps), a)
        THEN [allowed |-> FALSE,
              result |-> IF Len(timestamps) > 0
                         THEN int(MinOf(timestamps)
                                  + Seconds(LIMITS(a).window) - now_ts)
                         ELSE LIMITS(a).window,
              doc |-> doc, raised |-> FALSE]
        ELSE [allowed |-> TRUE,
              result |-> LIMITS(a).max - (Len(timestamps) + 1),
              doc |-> RateDoc(Append(timestamps, now_ts), u, a),
              raised |-> FALSE]

\* Inside check_rate_limit the name `firestore` is a local variable (it is
\* bound by the `from google.cloud import firestore` that follows the
\* definition of update_rate_limit), so it has no value yet when the
\* decorator `@firestore.transactional` is evaluated: the decorator raises
\* UnboundLocalError inside the try block.
FirestoreLocalBound == FALSE

CheckOnErrorClosed ==
    [val |-> "False", msg |-> [text |-> "Error checking limit", n |-> 0],
     raised |-> FALSE]

\* `except Exception` of check_rate_limit: print, return True, "Error ..."
CheckOnError ==
    [val |-> "True", msg |-> [text |-> "Error checking limit", n |-> 0],
     raised |-> FALSE]

\* what check_rate_limit(u, a) returns and the document it leaves, with
\* client c
CheckOutcome(c, u, a) ==
    LET doc == rate[<<u, a>>]
        tx == update_rate_limit(doc, time_time, u, a)
    IN  IF ~c
        THEN [val |-> "True",
              msg |-> [text |-> "No database connection", n |-> 0],
              raised |-> FALSE, at |-> "client", doc |-> doc]
        ELSE IF ~FirestoreLocalBound
        THEN [val |-> CheckOnError.val, msg |-> CheckOnError.msg,
              raised |-> CheckOnError.raised, at |-> "decorator",
              doc |-> doc]
        ELSE IF ~storeUp
        THEN [val |-> CheckOnError.val, msg |-> CheckOnError.msg,
              raised |-> CheckOnError.raised, at |-> "transaction",
              doc |-> doc]
        ELSE IF tx.raised
        THEN [val |-> CheckOnError.val, msg |-> CheckOnError.msg,
              raised |-> CheckOnError.raised, at |-> "record", doc |-> doc]
        ELSE IF tx.allowed
        THEN [val |-> "True",
              msg |-> [text |-> "Remaining", n |-> tx.result],
              raised |-> FALSE, at |-> "", doc |-> tx.doc]
        ELSE [val |-> "False",
              msg |-> [text |-> "Rate limit reached", n |-> tx.result],
              raised |-> FALSE, at |-> "", doc |-> doc]

\* check_rate_limit(user_id, action)
CheckRateLimit(u, a) ==
    /\ \E c \in get_firestore_client :
          LET out == CheckOutcome(c, u, a)
          IN  /\ last' = Ret("check", u, out.val, out.msg, out.raised,
                             out.at, out.doc # rate[<<u, a>>])
              /\ rate' = [rate EXCEPT ![<<u, a>>] = out.doc]
    /\ UNCHANGED <<clock, sub, txn, setting, cacheCall, storeUp, locks, cache, pc, db, snap, now,
                   interfered, healed, live, writer, healAt>>

RECURSIVE StampTotal(_)
StampTotal(ks) ==
    IF ks = {} THEN 0
    ELSE LET k == CHOOSE x \in ks : TRUE
         IN  Len(Stamps(rate[k])) + StampTotal(ks \ {k})

\* transaction.get / update_rate_limit / transaction.set run as one
\* Firestore transaction on rate_limits/{u}_{a}: the read, the decision and
\* the write are one atomic step; an exception raised in the body leaves
\* the transaction and is caught by check_rate_limit.  after_reset records that the call
\* returned just before was a reset_limits of the same user that went
\* through, prev_denied that the transaction before this one was on the
\* same document and denied.
TxnCheck(u, a) ==
    /\ storeUp
    /\ LET doc == rate[<<u, a>>]
           tx == update_rate_limit(doc, time_time, u, a)
           allowed == IF tx.raised THEN CheckOnError.val = "True"
                      ELSE tx.allowed
       IN  /\ StampTotal((Subjects \X Actions) \ {<<u, a>>})
                + Len(Stamps(tx.doc)) <= MaxChecks
           /\ rate' = [rate EXCEPT ![<<u, a>>] = tx.doc]
           /\ txn' = [user |-> u, action |-> a, now_ts |-> time_time,
                      read |-> doc, allowed |-> allowed,
                      result |-> tx.result, raised |-> tx.raised,
                      after_reset |-> /\ last.op = "reset"
                                      /\ last.user = u
                                      /\ ~last.failed,
                      prev_denied |-> /\ txn.user = u
                                      /\ txn.action = a
                                      /\ ~txn.allowed]
           /\ last' = IF tx.raised
                      THEN Ret("txn", u, CheckOnError.val, CheckOnError.msg,
                               CheckOnError.raised, "record", FALSE)
                      ELSE Ret("txn", u,
                               IF tx.allowed THEN "True" ELSE "False",
                               [text |-> IF tx.allowed THEN "Remaining"
                                         ELSE "Rate limit reached",
                                n |-> tx.result],
                               FALSE, "", tx.doc # doc)
    /\ UNCHANGED <<hvars, clock, sub, setting, cacheCall, storeUp, locks, cache, pc,
                   db, snap, now, interfered, healed, live, writer, healAt,
                   series>>

RECURSIVE SeriesTotal(_)
SeriesTotal(ks) ==
    IF ks = {} THEN 0
    ELSE LET k == CHOOSE x \in ks : TRUE
         IN  Len(series[k].res) + SeriesTotal(ks \ {k})

\* history of the call just returned: a call made with the store reachable
\* joins the series of its <<user, action>>, or starts a new one when window
\* seconds have passed since the first call of the series
LogCheck(u, a) ==
    /\ SeriesTotal(Subjects \X Actions) < MaxChecks
    /\ LET sr == series[<<u, a>>]
           e == [allowed |-> last'.val = "True", text |-> last'.msg.text,
                 n |-> last'.msg.n]
       IN  series' =
             IF last'.at = "client" \/ ~storeUp
             THEN series
             ELSE IF sr.res = <<>> \/ clock >= sr.t0 + LIMITS(a).window
             THEN [series EXCEPT ![<<u, a>>] = [t0 |-> clock, res |-> <<e>>]]
             ELSE [series EXCEPT ![<<u, a>>] =
                      [t0 |-> sr.t0, res |-> Append(sr.res, e)]]

where_any(doc, u) == doc.exists

\* `.where('user_id', '==', user_id)`
where_user_id(doc, u) == doc.exists /\ doc.user_id = u

\* `except Exception` of reset_limits: print, fall off the end
ResetOnError == [val |-> "None", raised |-> FALSE]

\* reset_limits(user_id): delete every document whose user_id field is u
ResetLimits(u) ==
    /\ \E c \in get_firestore_client :
          IF ~c
          THEN /\ last' = Ret("reset", u, "None", NoMsg, FALSE, "client",
                              FALSE)
               /\ UNCHANGED <<rate, series>>
          ELSE IF ~storeUp
          THEN /\ last' = Ret("reset", u, ResetOnError.val, NoMsg,
                              ResetOnError.raised, "query", FALSE)
               /\ UNCHANGED <<rate, series>>
          ELSE /\ rate' = [k \in Subjects \X Actions |->
                             IF where_user_id(rate[k], u)
                             THEN NoDoc ELSE rate[k]]
               /\ series' = [k \in Subjects \X Actions |->
                               IF k[1] = u THEN NoSeries ELSE series[k]]
               /\ last' = Ret("reset", u, "None", NoMsg, FALSE, "",
                              rate' # rate)
    /\ UNCHANGED <<hvars, clock, sub, txn, setting, cacheCall, storeUp, locks, cache, pc, db, snap, now,
                   interfered, healed, live, writer, healAt>>

\* ------------------------------------------------------------------ cache

\* document written by set_cached_digest (created_at / updated_at are not
\* read by get_cached_digest)
CacheDoc(content, exp) ==
    [exists |-> TRUE, content |-> content, expires_at |-> exp]

\* no set_cached_digest call is under way
NoSet == [active |-> FALSE]

\* history of a returned call of cache.py: what it returned (the fields of
\* last), the time.time() it read (now_ts), the time it returned at
\* (ret_ts) and the arguments of set_cached_digest.  after_set: the call
\* returned just before was a set_cached_digest that went through at this
\* same time, digest and ttl being its arguments.  raced: another
\* instance's set_cached_digest was under way when this one wrote.
\* overwrote: the entry it replaced had another content and another
\* expires_at.
CacheCall(op, ret, now_ts, digest, ttl, after_set, raced, overwrote) ==
    [op |-> op, val |-> ret.val, raised |-> ret.raised,
     failed |-> ret.at \in {"client", "get", "set"}, at |-> ret.at,
     now_ts |-> now_ts,
     ret_ts |-> time_time, digest |-> digest, ttl |-> ttl,
     after_set |-> after_set, raced |-> raced, overwrote |-> overwrote]

NoCacheCall == [op |-> "none", val |-> "None", raised |-> FALSE,
                failed |-> FALSE, at |-> "", now_ts |-> 0, ret_ts |-> 0,
                digest |-> "None", ttl |-> 0, after_set |-> FALSE,
                raced |-> FALSE, overwrote |-> FALSE]

\* `data.get('expires_at', 0)`
CacheExpiry(doc) == IF Shape(doc) = "missing" THEN 0 ELSE doc.expires_at

\* `data.get('content')`
CacheContent(doc) == IF "content" \in DOMAIN doc THEN doc.content ELSE "None"

\* `time.time() < expiry` on an expiry that is no number raises
CompareRaises(doc) == doc.exists /\ Shape(doc) = "junk"

cache_valid_inclusive(doc, t) == doc.exists /\ t <= CacheExpiry(doc)

\* `doc.exists` and `time.time() < expiry`
cache_valid(doc, t) == doc.exists /\ t < CacheExpiry(doc)

\* `except Exception` of get_cached_digest: print, return None
CacheGetOnErrorRaises == [val |-> "None", raised |-> TRUE]

CacheGetOnError == [val |-> "None", raised |-> FALSE]

CacheSetOnErrorRaises == [val |-> "None", raised |-> TRUE]

\* `except Exception` of set_cached_digest: print, fall off the end
CacheSetOnError == [val |-> "None", raised |-> FALSE]

\* what get_cached_digest() returns with client c
GetOutcome(c) ==
    IF ~c
    THEN [val |-> "None", raised |-> FALSE, at |-> "client"]
    ELSE IF ~storeUp
    THEN [val |-> CacheGetOnError.val, raised |-> CacheGetOnError.raised,
          at |-> "get"]
    ELSE IF CompareRaises(cache)
    THEN [val |-> CacheGetOnError.val, raised |-> CacheGetOnError.raised,
          at |-> "record"]
    ELSE [val |-> IF cache_valid(cache, time_time) THEN CacheContent(cache)
                  ELSE "None",
          raised |-> FALSE, at |-> ""]

\* the set_cached_digest call returned just before went through and no time
\* has passed since
AfterSet ==
    /\ cacheCall.op = "set"
    /\ ~cacheCall.failed
    /\ cacheCall.ret_ts = time_time

\* get_cached_digest()
GetCachedDigest ==
    /\ \E c \in get_firestore_client :
          LET out == GetOutcome(c)
          IN  /\ last' = Ret("cache_get", 0, out.val, NoMsg, out.raised,
                             out.at, FALSE)
    /\ UNCHANGED <<clock, sub, txn, setting, storeUp, locks, rate, cache, pc,
                   db, snap, now, interfered, healed, live, writer, healAt,
                   series>>

\* is_digest_cached(): `get_cached_digest() is not None`
IsDigestCached ==
    /\ \E c \in get_firestore_client :
          LET out == GetOutcome(c)
              val == IF out.val # "None" THEN "True" ELSE "False"
          IN  /\ last' = Ret("is_cached", 0, val, NoMsg, out.raised, out.at,
                             FALSE)
    /\ UNCHANGED <<clock, sub, txn, setting, storeUp, locks, rate, cache, pc,
                   db, snap, now, interfered, healed, live, writer, healAt,
                   series>>

\* set_cached_digest(digest, ttl_minutes) up to the store call: the client
\* is fetched and time.time() is read
CacheSetBegin(p, digest, ttl_minutes) ==
    /\ ~setting[p].active
    /\ \E c \in get_firestore_client :
          IF ~c
          THEN /\ last' = Ret("cache_set", 0, "None", NoMsg, FALSE, "client",
                              FALSE)
               /\ UNCHANGED setting
          ELSE /\ setting' = [setting EXCEPT ![p] =
                                 [active |-> TRUE, digest |-> digest,
                                  ttl_minutes |-> ttl_minutes,
                                  now_ts |-> time_time]]
               /\ UNCHANGED last
    /\ UNCHANGED <<clock, sub, txn, storeUp, locks, rate, cache, pc, db, snap,
                   now, interfered, healed, live, writer, healAt, series>>

ExpiryNoTtl(now_ts, ttl_minutes) == now_ts

\* `expiry = now_ts + (ttl_minutes * 60)`
Expiry(now_ts, ttl_minutes) == now_ts + Seconds(ttl_minutes * 60)

CacheWriteMerge(old, new) ==
    IF old.exists THEN [new EXCEPT !.expires_at = old.expires_at] ELSE new

\* `.document('news_digest').set({...})`: the document becomes the dict
CacheWrite(old, new) == new

\* the store call of set_cached_digest and its return
CacheSetWrite(p) ==
    /\ setting[p].active
    /\ LET s == setting[p]
           expiry == Expiry(s.now_ts, s.ttl_minutes)
       IN  IF ~storeUp
           THEN /\ last' = Ret("cache_set", 0, CacheSetOnError.val, NoMsg,
                               CacheSetOnError.raised, "set", FALSE)
                /\ UNCHANGED cache
           ELSE /\ cache' = CacheWrite(cache, CacheDoc(s.digest, expiry))
                /\ last' = Ret("cache_set", 0, "None", NoMsg, FALSE, "", TRUE)
    /\ setting' = [setting EXCEPT ![p] = NoSet]
    /\ UNCHANGED <<clock, sub, txn, storeUp, locks, rate, pc, db, snap, now,
                   interfered, healed, live, writer, healAt, series>>

\* history of the cache read or is_digest_cached call just returned
LogCacheRead(op) ==
    cacheCall' = CacheCall(op, last', time_time,
                           IF AfterSet THEN cacheCall.digest ELSE "None",
                           IF AfterSet THEN cacheCall.ttl ELSE 0,
                           AfterSet, FALSE, FALSE)

\* history of the step of set_cached_digest just taken by p: nothing while
\* the call is under way
LogCacheSet(p) ==
    cacheCall' =
        IF setting'[p].active THEN cacheCall
        ELSE IF ~setting[p].active
        THEN CacheCall("set", last', time_time, "None", 0, FALSE, FALSE,
                       FALSE)
        ELSE CacheCall("set", last', setting[p].now_ts, setting[p].digest,
                       setting[p].ttl_minutes, FALSE,
                       \E q \in Procs \ {p} : setting[q].active,
                       /\ cache.exists
                       /\ cache' # cache
                       /\ cache.content # cache'.content
                       /\ cache.expires_at # cache'.expires_at)

\* ----------------------------------------------------------- schema drift
\* another writer of the store leaves a lock document whose expires_at is
\* absent or no timestamp
DriftLock(u, shape) ==
    /\ storeUp
    /\ locks' = [locks EXCEPT ![u] =
                    [exists |-> TRUE, user_id |-> u, shape |-> shape]]
    /\ writer' = [writer EXCEPT ![u] = 0]
    /\ UNCHANGED <<hvars, clock, sub, txn, setting, cacheCall, storeUp, rate, cache,
                   pc, db, snap, now, last, interfered, healed, live, healAt,
                   series>>

\* cache/news_digest documents of another shape: expires_at absent or no
\* number, or content absent on an unexpired entry
DriftedCache ==
    {[exists |-> TRUE, content |-> d, shape |-> sh] :
        d \in Digests, sh \in {"missing", "junk"}}
    \cup {[exists |-> TRUE,
           expires_at |-> Expiry(time_time, CACHE_TTL_MINUTES)]}

DriftCache ==
    /\ storeUp
    /\ cache' \in DriftedCache
    /\ UNCHANGED <<hvars, clock, sub, txn, setting, cacheCall, storeUp, locks, rate,
                   pc, db, snap, now, last, interfered, healed, live, writer,
                   healAt, series>>

\* a rate_limits document whose timestamps is absent or no list of numbers
DriftRate(u, a, shape) ==
    /\ storeUp
    /\ rate' = [rate EXCEPT ![<<u, a>>] =
                   [exists |-> TRUE, user_id |-> u, action |-> a,
                    shape |-> shape]]
    /\ UNCHANGED <<hvars, clock, sub, txn, setting, cacheCall, storeUp, locks, cache,
                   pc, db, snap, now, last, interfered, healed, live, writer,
                   healAt, series>>

\* ---------------------------------------------------------------- handlers
\* telegram_bot.py: news_command (/news) and refresh_callback (the refresh
\* button), each run by the handler instance that serves the update.

\* generations counted per user by the history variable started
MaxStarts == 6

\* a handler instance that serves no update.  at is the position of the run
\* ("done": it has ended), calls the primitives it has called, in order;
\* allowed: its check_rate_limit returned allowed = True; granted: its
\* lock.acquire() returned True, at wall-clock time since; released: it has
\* called lock.release(); digest: the digest it read from the cache or
\* generated; exit: the position the run ended at, raised: by an exception
\* that left the handler
NoHandler ==
    [kind |-> "none", at |-> "done", calls |-> <<>>, allowed |-> FALSE,
     granted |-> FALSE, since |-> 0, released |-> FALSE, digest |-> "None",
     exit |-> "", raised |-> FALSE]

NoStarts == [t0 |-> 0, n |-> 0]

\* the checks in the order lock, then limiter, then cache
news_command_lock_first(at, val) ==
    CASE at = "start"        -> "is_locked"
      [] at = "is_locked"    -> IF val = "True" THEN "done" ELSE "rate"
      [] at = "rate"         -> IF val = "True" THEN "is_cached" ELSE "done"
      [] at = "is_cached"    -> IF val = "True" THEN "cached_get"
                                                ELSE "acquire"
      [] at = "cached_get"   -> "cached_reply"
      [] at = "acquire"      -> IF val = "True" THEN "progress" ELSE "done"
      [] at = "progress"     -> IF val = "raised" THEN "done" ELSE "generate"
      [] at = "generate"     -> IF val = "digest" THEN "set_cache"
                                                  ELSE "release"
      [] at = "set_cache"    -> "release"
      [] OTHER               -> "done"

\* the limiter consulted before the cache
news_command_limiter_first(at, val) ==
    CASE at = "start"        -> "rate"
      [] at = "rate"         -> IF val = "True" THEN "is_cached" ELSE "done"
      [] at = "is_cached"    -> IF val = "True" THEN "cached_get"
                                                ELSE "is_locked"
      [] at = "cached_get"   -> "cached_reply"
      [] at = "is_locked"    -> IF val = "True" THEN "done" ELSE "acquire"
      [] at = "acquire"      -> IF val = "True" THEN "progress" ELSE "done"
      [] at = "progress"     -> IF val = "raised" THEN "done" ELSE "generate"
      [] at = "generate"     -> IF val = "digest" THEN "set_cache"
                                                  ELSE "release"
      [] at = "set_cache"    -> "release"
      [] OTHER               -> "done"

\* control flow of news_command: the position that follows position at when
\* the call made there returned val
news_command(at, val) ==
    CASE at = "start"        -> "is_cached"
      [] at = "is_cached"    -> IF val = "True" THEN "cached_get"
                                                ELSE "is_locked"
      [] at = "cached_get"   -> "cached_reply"
      [] at = "is_locked"    -> IF val = "True" THEN "done" ELSE "rate"
      [] at = "rate"         -> IF val = "True" THEN "acquire" ELSE "done"
      [] at = "acquire"      -> IF val = "True" THEN "progress" ELSE "done"
      [] at = "progress"     -> IF val = "raised" THEN "done" ELSE "generate"
      [] at = "generate"     -> IF val = "digest" THEN "set_cache"
                                                  ELSE "release"
      [] at = "set_cache"    -> "release"
      [] OTHER               -> "done"

\* a refresh that goes on after a refused acquire
refresh_callback_unguarded(at, val) ==
    CASE at = "start"        -> "acquire"
      [] at = "acquire"      -> "progress"
      [] at = "progress"     -> IF val = "raised" THEN "done" ELSE "generate"
      [] at = "generate"     -> "release"
      [] OTHER               -> "done"

\* control flow of refresh_callback
refresh_callback(at, val) ==
    CASE at = "start"        -> "acquire"
      [] at = "acquire"      -> IF val = "True" THEN "progress" ELSE "done"
      [] at = "progress"     -> IF val = "raised" THEN "done" ELSE "generate"
      [] at = "generate"     -> "release"
      [] OTHER               -> "done"

Flow(kind, at, val) ==
    IF kind = "news" THEN news_command(at, val)
                     ELSE refresh_callback(at, val)

\* the run h after the call op it made at its position returned val
Advance(h, op, val) ==
    LET nxt == Flow(h.kind, h.at, val)
    IN  [h EXCEPT !.at = nxt,
                  !.calls = Append(@, op),
                  !.exit = IF nxt = "done" THEN h.at ELSE @]

\* the section of a run in which the digest is fetched and summarized
Generating(h) == h.at = "generate"

\* an update reaches instance p: /news or a press of the refresh button
Request(p, kind) ==
    /\ handler[p].at = "done"
    /\ pc[p] = "idle"
    /\ handler' = [handler EXCEPT ![p] =
                      [NoHandler EXCEPT !.kind = kind,
                                        !.at = Flow(kind, "start", "")]]
    /\ UNCHANGED <<clock, sub, txn, setting, cacheCall, storeUp, locks, rate,
                   cache, pc, db, snap, now, last, interfered, healed, live,
                   writer, healAt, series, started, web, retry>>

\* `if is_digest_cached():`
NewsIsCached(p) ==
    /\ handler[p].at = "is_cached"
    /\ IsDigestCached
    /\ handler' = [handler EXCEPT ![p] =
                      Advance(@, "is_digest_cached", last'.val)]
    /\ UNCHANGED <<cacheCall, started, web, retry>>

\* `cached_digest = get_cached_digest()`
NewsCachedGet(p) ==
    /\ handler[p].at = "cached_get"
    /\ GetCachedDigest
    /\ handler' = [handler EXCEPT ![p] =
                      [Advance(@, "get_cached_digest", last'.val)
                       EXCEPT !.digest = last'.val]]
    /\ UNCHANGED <<cacheCall, started, web, retry>>

\* get_digest_timestamp(): created_at of an unexpired entry, else None
GetDigestTimestamp ==
    /\ \E c \in get_firestore_client :
          LET out == GetOutcome(c)
          IN  last' = Ret("cache_stamp", 0,
                          IF out.at = "" /\ cache_valid(cache, time_time)
                          THEN "created_at" ELSE "None",
                          NoMsg, FALSE, out.at, FALSE)
    /\ UNCHANGED <<clock, sub, txn, setting, storeUp, locks, rate, cache, pc,
                   db, snap, now, interfered, healed, live, writer, healAt,
                   series>>

\* the rest of the cached branch: get_digest_timestamp(), the header, then
\* `cached_digest[:100]`, which raises TypeError on None, and the reply
NewsCachedReply(p) ==
    /\ handler[p].at = "cached_reply"
    /\ GetDigestTimestamp
    /\ handler' = [handler EXCEPT ![p] =
                      [Advance(@, "get_digest_timestamp", last'.val)
                       EXCEPT !.raised = handler[p].digest = "None"]]
    /\ UNCHANGED <<cacheCall, started, web, retry>>

\* `if is_locked('news_generation', telegram_id):`
NewsIsLocked(p) ==
    /\ handler[p].at = "is_locked"
    /\ IsLocked(UserOf(p))
    /\ handler' = [handler EXCEPT ![p] = Advance(@, "is_locked", last'.val)]
    /\ UNCHANGED <<started, web, retry>>

\* `allowed, message = check_rate_limit(telegram_id, 'news')`
NewsRate(p) ==
    /\ handler[p].at = "rate"
    /\ CheckRateLimit(UserOf(p), "news")
    /\ handler' = [handler EXCEPT ![p] =
                      [Advance(@, "check_rate_limit", last'.val)
                       EXCEPT !.allowed = last'.val = "True"]]
    /\ UNCHANGED <<series, started, web, retry>>

\* `lock = DistributedLock(...)` and `if not lock.acquire():`, one store
\* call at a time
HandlerAcquire(p) ==
    /\ handler[p].at = "acquire"
    /\ \/ Construct(p)
       \/ AcquireGet(p)
       \/ AcquireCheck(p)
       \/ AcquireSet(p)
    /\ handler' = [handler EXCEPT ![p] =
                      IF pc'[p] \in {"holding", "idle"}
                      THEN [Advance(@, "acquire", last'.val)
                            EXCEPT !.granted = last'.val = "True",
                                   !.since = clock]
                      ELSE @]
    /\ UNCHANGED <<started, web, retry>>

\* the generation started now joins the series of its user, or starts a new
\* one when the limiter's window has passed since the first of the series
Started(u) ==
    LET s == started[u]
    IN  IF s.n = 0 \/ clock >= s.t0 + LIMITS("news").window
        THEN [t0 |-> clock, n |-> 1]
        ELSE [t0 |-> s.t0, n |-> s.n + 1]

\* the messages sent between the acquire and the `try:` (reply_text in
\* news_command, query.answer and reply_text in refresh_callback): they go
\* through and the try block is entered, or one raises and the exception
\* leaves the handler
Progress(p) ==
    /\ handler[p].at = "progress"
    /\ \E sent \in BOOLEAN :
          IF sent
          THEN /\ Started(UserOf(p)).n <= MaxStarts
               /\ handler' = [handler EXCEPT ![p] =
                                 [handler[p] EXCEPT
                                     !.at = Flow(handler[p].kind,
                                                 "progress", "sent")]]
               /\ started' = [started EXCEPT ![UserOf(p)] =
                                 Started(UserOf(p))]
               /\ UNCHANGED <<pc, db>>
          ELSE /\ handler' = [handler EXCEPT ![p] =
                                 [handler[p] EXCEPT
                                     !.at = Flow(handler[p].kind,
                                                 "progress", "raised"),
                                     !.exit = "progress",
                                     !.raised = TRUE]]
               /\ pc' = [pc EXCEPT ![p] = "idle"]
               /\ db' = Forget(db, p, TRUE)
               /\ UNCHANGED started
    /\ UNCHANGED <<clock, sub, txn, setting, cacheCall, storeUp, locks, rate,
                   cache, snap, now, last, interfered, healed, live, writer,
                   healAt, series, web, retry>>

\* the try block up to the digest: the scrapers and summarize_news.  No
\* news, an exception (caught by `except Exception`) or a digest
Generate(p) ==
    /\ Generating(handler[p])
    /\ \E r \in {"no_news", "error"} \cup Digests :
          handler' = [handler EXCEPT ![p] =
                         [handler[p] EXCEPT
                             !.at = Flow(handler[p].kind, "generate",
                                         IF r \in Digests THEN "digest"
                                                          ELSE r),
                             !.digest = IF r \in Digests THEN r
                                        ELSE "None"]]
    /\ UNCHANGED <<clock, sub, txn, setting, cacheCall, storeUp, locks, rate,
                   cache, pc, db, snap, now, last, interfered, healed, live,
                   writer, healAt, series, started, web, retry>>

\* `set_cached_digest(digest, ttl_minutes=15)`
NewsSetCache(p) ==
    /\ handler[p].at = "set_cache"
    /\ \/ CacheSetBegin(p, handler[p].digest, CACHE_TTL_MINUTES)
       \/ CacheSetWrite(p)
    /\ handler' = [handler EXCEPT ![p] =
                      IF setting'[p].active THEN @
                      ELSE Advance(@, "set_cached_digest", last'.val)]
    /\ UNCHANGED <<cacheCall, started, web, retry>>

\* the digest is sent (or the error text, or the no-news text), then
\* `finally: lock.release()`
HandlerRelease(p) ==
    /\ handler[p].at = "release"
    /\ Release(p)
    /\ handler' = [handler EXCEPT ![p] =
                      [Advance(@, "release", last'.val)
                       EXCEPT !.released = TRUE]]
    /\ UNCHANGED <<started, web, retry>>

\* ----------------------------------------------------------------- webhook
\* main.py: telegram_webhook(request), the HTTP function Telegram posts
\* updates to

Methods == {"GET", "POST"}

\* request bodies: one that request.get_json() raises on, JSON values that
\* are falsy in Python, a JSON object that is no Telegram update, and
\* updates (the commands /news and /start, a refresh press)
Unparsable == {"not json"}
EmptyJson == {"null", "{}", "[]"}
NoUpdate == {"other json"}
Updates == {"news", "start", "refresh"}
Bodies == Unparsable \cup EmptyJson \cup NoUpdate \cup Updates

\* how an awaited call of process() ends
Outcomes == {"ok", "timeout", "raised"}

\* no invocation yet.  at is the position in telegram_webhook ("returned":
\* it has returned (text, status)); initialize, de_json, process_update and
\* shutdown record how those calls ended
NoRequest ==
    [at |-> "idle", method |-> "", body |-> "", initialize |-> "",
     de_json |-> "", process_update |-> "", shutdown |-> "", text |-> "",
     status |-> 0]

\* `return text, status`
Return(w, text, status) ==
    [w EXCEPT !.at = "returned", !.text = text, !.status = status]

\* `if not update_data: return 'No data', 400`
on_no_data == [text |-> "No data", status |-> 400]

\* what the webhook steps leave alone
WebhookFrame ==
    UNCHANGED <<clock, sub, txn, setting, cacheCall, storeUp, locks, rate,
                cache, pc, db, snap, now, last, interfered, healed, live,
                writer, healAt, series, handler, started, retry>>

\* a request arrives: `if request.method != 'POST': return 'OK', 200`
WebhookReceive(method, body) ==
    /\ web.at \in {"idle", "returned"}
    /\ web' = IF method # "POST"
              THEN Return([NoRequest EXCEPT !.method = method,
                                            !.body = body], "OK", 200)
              ELSE [NoRequest EXCEPT !.at = "get_json", !.method = method,
                                     !.body = body]
    /\ WebhookFrame

\* `update_data = request.get_json()` inside the try: it raises on a body
\* that is no JSON (caught by `except Exception`, which returns 'OK', 200),
\* or returns the parsed value, and a falsy one is refused
WebhookGetJson ==
    /\ web.at = "get_json"
    /\ web' = IF web.body \in Unparsable THEN Return(web, "OK", 200)
              ELSE IF web.body \in EmptyJson
              THEN Return(web, on_no_data.text, on_no_data.status)
              ELSE [web EXCEPT !.at = "create"]
    /\ WebhookFrame

\* `application = create_bot_application()`: an exception goes to the outer
\* `except Exception`
WebhookCreate ==
    /\ web.at = "create"
    /\ \E built \in BOOLEAN :
          web' = IF built THEN [web EXCEPT !.at = "initialize"]
                 ELSE Return(web, "OK", 200)
    /\ WebhookFrame

\* process(): `await asyncio.wait_for(application.initialize(), 10.0)`; a
\* timeout or an exception is caught inside process() and skips the update
WebhookInitialize ==
    /\ web.at = "initialize"
    /\ \E o \in Outcomes :
          web' = [web EXCEPT !.initialize = o,
                             !.at = IF o = "ok" THEN "de_json"
                                                ELSE "shutdown"]
    /\ WebhookFrame

\* process(): `update = Update.de_json(update_data, application.bot)` and
\* the print of its effective user; on an object that is no update this
\* raises, which is caught inside process()
WebhookDeJson ==
    /\ web.at = "de_json"
    /\ web' = IF web.body \in NoUpdate
              THEN [web EXCEPT !.de_json = "raised", !.at = "shutdown"]
              ELSE [web EXCEPT !.de_json = "ok", !.at = "process_update"]
    /\ WebhookFrame

\* process(): `await asyncio.wait_for(application.process_update(update),
\* 120.0)`, which runs the handler of the update
WebhookProcessUpdate ==
    /\ web.at = "process_update"
    /\ \E o \in Outcomes :
          web' = [web EXCEPT !.process_update = o, !.at = "shutdown"]
    /\ WebhookFrame

\* process(), `finally:` the shutdown with its own try / except; then
\* asyncio.run returns and the function returns 'OK', 200
WebhookShutdown ==
    /\ web.at = "shutdown"
    /\ \E o \in Outcomes :
          web' = Return([web EXCEPT !.shutdown = o], "OK", 200)
    /\ WebhookFrame

\* ------------------------------------------------------------ environment
Tick ==
    /\ clock + TickStep <= MaxTime
    /\ clock' = clock + TickStep
    /\ sub' = 0
    /\ live' = [u \in Users |-> IF clock' >= live[u] THEN 0 ELSE live[u]]
    /\ healAt' = [u \in Users |-> IF clock' >= healAt[u] THEN 0 ELSE healAt[u]]
    /\ UNCHANGED <<hvars, txn, setting, cacheCall, storeUp, locks, rate, cache, pc, db, snap, now, last,
                   interfered, healed, writer, series>>

\* time.time() advances by less than a second
SubTick ==
    /\ sub + 1 < SubPerSec
    /\ sub' = sub + 1
    /\ UNCHANGED <<hvars, clock, txn, setting, cacheCall, storeUp, locks, rate, cache, pc, db, snap, now,
                   last, interfered, healed, live, writer, healAt, series>>

StoreFails ==
    /\ storeUp
    /\ storeUp' = FALSE
    /\ UNCHANGED <<hvars, clock, sub, txn, setting, cacheCall, locks, rate, cache, pc, db, snap, now, last,
                   interfered, healed, live, writer, healAt, series>>

StoreRecovers ==
    /\ ~storeUp
    /\ storeUp' = TRUE
    /\ UNCHANGED <<hvars, clock, sub, txn, setting, cacheCall, locks, rate, cache, pc, db, snap, now, last,
                   interfered, healed, live, writer, healAt, series>>

\* ------------------------------------------------------ retry_with_backoff

\* arguments given to the decorator: those of the call sites (max_retries
\* 2, base_delay 1.0, max_delay 10.0 or 5.0, exponential_base 2.0) and
\* their neighbours
MaxRetries == 3
BaseDelays == {1, 2}
MaxDelays == {5, 10}
ExponentialBases == {1, 2, 3}

\* how one invocation of the wrapped function ends: it returns, raises an
\* exception of a class in `exceptions`, or raises another one
InvocationOutcomes == {"ok", "listed", "unlisted"}

\* no call under way.  invoked counts the invocations of the wrapped
\* function, waits lists the delays slept, result and exc name the
\* invocation whose value was returned or whose exception left the wrapper
NoRetry ==
    [at |-> "idle", max_retries |-> 0, base_delay |-> 0, max_delay |-> 0,
     exponential_base |-> 0, attempt |-> 0, last_exception |-> 0,
     delay |-> 0, invoked |-> 0, waits |-> <<>>, result |-> 0,
     exc |-> [id |-> 0, listed |-> FALSE]]

\* exponential_base ** attempt
RECURSIVE pow(_, _)
pow(b, k) == IF k = 0 THEN 1 ELSE b * pow(b, k - 1)

min(a, b) == IF a <= b THEN a ELSE b

backoff_delay_uncapped(base_delay, exponential_base, attempt, max_delay) ==
    base_delay * pow(exponential_base, attempt)

\* delay = min(base_delay * (exponential_base ** attempt), max_delay)
backoff_delay(base_delay, exponential_base, attempt, max_delay) ==
    min(base_delay * pow(exponential_base, attempt), max_delay)

\* what the steps of the wrapper leave alone
RetryFrame ==
    UNCHANGED <<clock, sub, txn, setting, cacheCall, storeUp, locks, rate,
                cache, pc, db, snap, now, last, interfered, healed, live,
                writer, healAt, series, handler, started, web>>

\* the wrapped function is called: last_exception = None and the loop
\* `for attempt in range(max_retries + 1)` is entered
RetryCall(max_retries, base_delay, max_delay, exponential_base) ==
    /\ retry.at \in {"idle", "returned", "raised"}
    /\ retry' = [NoRetry EXCEPT !.at = "invoke",
                                !.max_retries = max_retries,
                                !.base_delay = base_delay,
                                !.max_delay = max_delay,
                                !.exponential_base = exponential_base]
    /\ RetryFrame

\* `return func(*args, **kwargs)` inside the try and, when it raises an
\* exception of `exceptions`, the except block up to the sleep
RetryInvoke(outcome) ==
    /\ retry.at = "invoke"
    /\ LET id == retry.invoked + 1
           r == [retry EXCEPT !.invoked = id]
       IN  retry' =
             IF outcome = "ok"
             THEN [r EXCEPT !.at = "returned", !.result = id]
             ELSE IF outcome = "unlisted"
             THEN [r EXCEPT !.at = "raised",
                            !.exc = [id |-> id, listed |-> FALSE]]
             ELSE IF retry.attempt = retry.max_retries
             THEN [r EXCEPT !.at = "raised", !.last_exception = id,
                            !.exc = [id |-> id, listed |-> TRUE]]
             ELSE [r EXCEPT !.at = "sleep", !.last_exception = id,
                            !.delay = backoff_delay(retry.base_delay,
                                                    retry.exponential_base,
                                                    retry.attempt,
                                                    retry.max_delay)]
    /\ RetryFrame

\* time.sleep(delay) returns and the loop goes to its next attempt
RetrySleep ==
    /\ retry.at = "sleep"
    /\ retry' = [retry EXCEPT !.at = "invoke",
                              !.attempt = @ + 1,
                              !.waits = Append(@, retry.delay),
                              !.delay = 0]
    /\ RetryFrame

\* --------------------------------------------------------- specifications
Init ==
    /\ clock = 0
    /\ sub = 0
    /\ txn = NoTxn
    /\ setting = [p \in Procs |-> NoSet]
    /\ cacheCall = NoCacheCall
    /\ storeUp = TRUE
    /\ locks = [u \in Users |-> NoDoc]
    /\ rate = [k \in Subjects \X Actions |-> NoDoc]
    /\ cache = NoDoc
    /\ pc = [p \in Procs |-> "idle"]
    /\ db = [p \in Procs |-> TRUE]
    /\ snap = [p \in Procs |-> NoDoc]
    /\ now = [p \in Procs |-> 0]
    /\ last = NoCall
    /\ interfered = [p \in Procs |-> FALSE]
    /\ healed = [p \in Procs |-> FALSE]
    /\ live = [u \in Users |-> 0]
    /\ writer = [u \in Users |-> 0]
    /\ healAt = [u \in Users |-> 0]
    /\ series = [k \in Subjects \X Actions |-> NoSeries]
    /\ handler = [p \in Procs |-> NoHandler]
    /\ started = [u \in Users |-> NoStarts]
    /\ web = NoRequest
    /\ retry = NoRetry

\* one handler instance calling the primitives one after the other
Caller == CHOOSE p \in Procs : TRUE

Subject == CHOOSE u \in Subjects : TRUE

NextLock ==
    \/ \E p \in Procs : Construct(p)
          /\ UNCHANGED hvars
    \/ \E p \in Procs : AcquireGet(p)
          /\ UNCHANGED hvars
    \/ \E p \in Procs : AcquireCheck(p)
          /\ UNCHANGED hvars
    \/ \E p \in Procs : AcquireSet(p)
          /\ UNCHANGED hvars
    \/ \E p \in Procs : Release(p)
          /\ UNCHANGED hvars
    \/ Tick
    \/ StoreFails
    \/ StoreRecovers

SpecLock == Init /\ [][NextLock]_vars

\* check_rate_limit called for one subject and reset_limits for every
\* subject, while time passes and the store fails and recovers
NextLimiter ==
    \/ \E a \in Actions :
          CheckRateLimit(Subject, a) /\ LogCheck(Subject, a)
          /\ UNCHANGED hvars
    \/ \E u \in Subjects : ResetLimits(u)
    \/ Tick
    \/ StoreFails
    \/ StoreRecovers

SpecLimiter == Init /\ [][NextLimiter]_vars

\* the transaction body of the limiter, run to completion on a reachable
\* store for one subject, while time passes
NextTxn ==
    \/ \E a \in Actions : TxnCheck(Subject, a)
    \/ Tick
    \/ SubTick

SpecTxn == Init /\ [][NextTxn]_vars

\* the transaction body and reset_limits for every subject, at one instant
NextReset ==
    \/ \E u \in Subjects, a \in Actions : TxnCheck(u, a)
    \/ \E u \in Subjects : ResetLimits(u)

SpecReset == Init /\ [][NextReset]_vars

NoSetUnderWay == \A p \in Procs : ~setting[p].active

\* cache.py called by one handler instance; a set_cached_digest call lasts
\* less than a clock step
NextCache ==
    \/ GetCachedDigest /\ LogCacheRead("get")
          /\ UNCHANGED hvars
    \/ IsDigestCached /\ LogCacheRead("is_cached")
          /\ UNCHANGED hvars
    \/ \E d \in Digests, ttl \in CacheTtls :
          CacheSetBegin(Caller, d, ttl) /\ LogCacheSet(Caller)
          /\ UNCHANGED hvars
    \/ CacheSetWrite(Caller) /\ LogCacheSet(Caller)
          /\ UNCHANGED hvars
    \/ Tick /\ NoSetUnderWay
    \/ SubTick
    \/ StoreFails
    \/ StoreRecovers

SpecCache == Init /\ [][NextCache]_vars

\* the same with every ttl_minutes that set_cached_digest accepts
NextCacheAnyTtl ==
    \/ NextCache
    \/ \E d \in Digests, ttl \in AnyTtls \ CacheTtls :
          CacheSetBegin(Caller, d, ttl) /\ LogCacheSet(Caller)
          /\ UNCHANGED hvars

SpecCacheAnyTtl == Init /\ [][NextCacheAnyTtl]_vars

\* cache.py called by every handler instance on a reachable store
NextCacheRace ==
    \/ GetCachedDigest /\ LogCacheRead("get")
          /\ UNCHANGED hvars
    \/ \E p \in Procs, d \in Digests :
          CacheSetBegin(p, d, CACHE_TTL_MINUTES) /\ LogCacheSet(p)
          /\ UNCHANGED hvars
    \/ \E p \in Procs : CacheSetWrite(p) /\ LogCacheSet(p)
          /\ UNCHANGED hvars
    \/ Tick /\ NoSetUnderWay
    \/ SubTick

SpecCacheRace == Init /\ [][NextCacheRace]_vars

\* one handler instance reading documents left by schema drift, on a
\* reachable store; the limiter's transaction is run on drifted documents
NextDrift ==
    \/ \E u \in Users, sh \in {"missing", "junk"} : DriftLock(u, sh)
    \/ DriftCache
    \/ \E a \in Actions, sh \in {"missing", "junk"} :
          DriftRate(Subject, a, sh)
    \/ Construct(Caller)
          /\ UNCHANGED hvars
    \/ AcquireGet(Caller)
          /\ UNCHANGED hvars
    \/ AcquireCheck(Caller)
          /\ UNCHANGED hvars
    \/ AcquireSet(Caller)
          /\ UNCHANGED hvars
    \/ Release(Caller)
          /\ UNCHANGED hvars
    \/ GetCachedDigest /\ LogCacheRead("get")
          /\ UNCHANGED hvars
    \/ \E a \in Actions :
          Malformed(rate[<<Subject, a>>]) /\ TxnCheck(Subject, a)

SpecDrift == Init /\ [][NextDrift]_vars

\* every step of news_command and refresh_callback run by instance p
HandlerStep(p) ==
    \/ NewsIsCached(p)
    \/ NewsCachedGet(p)
    \/ NewsCachedReply(p)
    \/ NewsIsLocked(p)
    \/ NewsRate(p)
    \/ HandlerAcquire(p)
    \/ Progress(p)
    \/ Generate(p)
    \/ NewsSetCache(p)
    \/ HandlerRelease(p)

\* one handler instance serving /news commands one after the other, while
\* time passes and the store fails and recovers
NextNews ==
    \/ Request(Caller, "news")
    \/ HandlerStep(Caller)
    \/ Tick
    \/ StoreFails
    \/ StoreRecovers

SpecNews == Init /\ [][NextNews]_vars

\* every handler instance serving one update, a /news command or a refresh
\* press, on a reachable store, all within one clock step
NextHandlers ==
    \/ \E p \in Procs, kind \in {"news", "refresh"} :
          handler[p].kind = "none" /\ Request(p, kind)
    \/ \E p \in Procs : HandlerStep(p)

SpecHandlers == Init /\ [][NextHandlers]_vars

\* telegram_webhook serving one request after the other
NextWebhook ==
    \/ \E m \in Methods, b \in Bodies : WebhookReceive(m, b)
    \/ WebhookGetJson
    \/ WebhookCreate
    \/ WebhookInitialize
    \/ WebhookDeJson
    \/ WebhookProcessUpdate
    \/ WebhookShutdown

SpecWebhook == Init /\ [][NextWebhook]_vars

NextOps ==
    \/ Construct(Caller)
          /\ UNCHANGED hvars
    \/ AcquireGet(Caller)
          /\ UNCHANGED hvars
    \/ AcquireCheck(Caller)
          /\ UNCHANGED hvars
    \/ AcquireSet(Caller)
          /\ UNCHANGED hvars
    \/ Release(Caller)
          /\ UNCHANGED hvars
    \/ \E u \in Users : IsLocked(u)
          /\ UNCHANGED hvars
    \/ \E u \in Subjects, a \in Actions :
          CheckRateLimit(u, a) /\ UNCHANGED series
          /\ UNCHANGED hvars
    \/ \E u \in Subjects : ResetLimits(u)
    \/ GetCachedDigest /\ UNCHANGED cacheCall
          /\ UNCHANGED hvars
    \/ \E d \in Digests :
          CacheSetBegin(Caller, d, CACHE_TTL_MINUTES) /\ UNCHANGED cacheCall
          /\ UNCHANGED hvars
    \/ CacheSetWrite(Caller) /\ UNCHANGED cacheCall
          /\ UNCHANGED hvars
    \/ IsDigestCached /\ UNCHANGED cacheCall
          /\ UNCHANGED hvars
    \/ Tick
    \/ StoreFails
    \/ StoreRecovers

SpecOps == Init /\ [][NextOps]_vars

\* every instance running every primitive
Next ==
    \/ NextLock
    \/ \E u \in Users : IsLocked(u)
          /\ UNCHANGED hvars
    \/ \E u \in Subjects, a \in Actions :
          CheckRateLimit(u, a) /\ UNCHANGED series
          /\ UNCHANGED hvars
    \/ \E u \in Subjects : ResetLimits(u)
    \/ GetCachedDigest /\ LogCacheRead("get")
          /\ UNCHANGED hvars
    \/ \E p \in Procs, d \in Digests :
          CacheSetBegin(p, d, CACHE_TTL_MINUTES) /\ LogCacheSet(p)
          /\ UNCHANGED hvars
    \/ \E p \in Procs : CacheSetWrite(p) /\ LogCacheSet(p)
          /\ UNCHANGED hvars
    \/ IsDigestCached /\ LogCacheRead("is_cached")
          /\ UNCHANGED hvars

Spec == Init /\ [][Next]_vars


\* ------------------------------------------------------------------ claims

\* an acquire that went through the store (client present, no store call
\* raised) and returned True
Granted == last.op = "acquire" /\ last.val = "True" /\ ~last.failed

\* C1: with the store reachable, from the moment an acquire returns True
\* until the lock is released or its ttl has elapsed no other acquire on the
\* same lock id returns True.
C1_MutualExclusion == Granted => ~last.overlap

\* C2: acquire's read, expiry check and write are one atomic transaction: no
\* other instance's write of the lock document takes effect between the read
\* and the write of an acquire.
C2_AtomicAcquire == (Granted /\ last.wrote) => ~last.interfered

\* C5: once ttl seconds have elapsed since every earlier successful acquire
\* on a lock id, with or without a release, the next acquire returns True.
C5_SelfHealing == (last.op = "acquire" /\ last.healed) => last.val = "True"

\* the acquire superseded a record left behind by an earlier holder
C5_Witness ==
    /\ Granted /\ last.healed /\ last.sawRec /\ last.wrote
    /\ clock >= LOCK_TTL

\* C6: with the store reachable, acquire returns True and writes the record
\* {caller, expires_at = now + ttl} exactly when the record it read is absent
\* or has expires_at <= now; when the record it read has expires_at > now it
\* returns False and writes nothing.
C6_AcquireDecision ==
    [][\A p \in Procs :
         /\ (pc[p] = "acq_check" /\ pc'[p] # "acq_check") =>
               IF snap[p].exists /\ snap[p].expires_at > clock
               THEN /\ pc'[p] = "idle"
                    /\ last'.op = "acquire" /\ last'.val = "False"
                    /\ locks' = locks
               ELSE /\ pc'[p] = "acq_set"
                    /\ now'[p] = clock
                    /\ locks' = locks
         /\ (pc[p] = "acq_set" /\ pc'[p] # "acq_set" /\ storeUp) =>
               /\ pc'[p] = "holding"
               /\ last'.op = "acquire" /\ last'.val = "True"
               /\ locks'[UserOf(p)] = [exists |-> TRUE, user_id |-> UserOf(p),
                                    expires_at |-> now[p] + LOCK_TTL]
               /\ \A u \in Users \ {UserOf(p)} : locks'[u] = locks[u]
      ]_vars

\* a refused acquire next to an unexpired record that it left in place
C6_Witness ==
    /\ last.op = "acquire" /\ last.val = "False" /\ last.sawRec
    /\ locks[last.user].exists /\ locks[last.user].expires_at > clock
    /\ clock > 0

\* C7: release deletes the record of its lock id whatever it holds (no owner
\* or expiry check), so an acquire that reads after it finds no record and
\* returns True; when the client is missing or the delete raises, release
\* returns normally and the record stays as it was.
C7_ReleaseUnconditional ==
    [][\A p \in Procs :
         /\ (pc[p] = "holding" /\ pc'[p] # "holding") =>
               /\ pc'[p] = "idle"
               /\ last'.op = "release" /\ ~last'.raised
               /\ IF db[p] /\ storeUp
                  THEN locks' = [locks EXCEPT ![UserOf(p)] = NoDoc]
                  ELSE locks' = locks
         /\ (pc[p] = "acq_check" /\ ~snap[p].exists /\ pc'[p] # "acq_check")
               => pc'[p] = "acq_set"
         /\ (pc[p] = "acq_set" /\ pc'[p] # "acq_set")
               => (pc'[p] = "holding" /\ last'.val = "True")
      ]_vars

\* release has just deleted an unexpired record written by another instance
C7_Witness ==
    /\ last.op = "release" /\ last.wrote /\ last.foreign
    /\ ~locks[last.user].exists

\* C8: when no client is available or a store call inside acquire raises
\* (the read or the write), acquire returns True and raises nothing.
C8_LockFailOpen ==
    (last.op = "acquire" /\ last.failed) => (last.val = "True" /\ ~last.raised)

\* the write of an acquire has failed and the caller proceeds
C8_Witness ==
    /\ last.op = "acquire" /\ last.at = "set" /\ last.val = "True"
    /\ \E p \in Procs : pc[p] = "holding"


\* the series of check_rate_limit(u, 'news') calls made with the store
\* reachable
News(u) == series[<<u, "news">>].res

Admitted(res) == Cardinality({i \in 1..Len(res) : res[i].allowed})

\* C3: with the store reachable, the calls of one (subject, action) admitted
\* within window_seconds never number more than max_count.
C3_BoundedAdmissions ==
    \A k \in Subjects \X Actions : Admitted(series[k].res) <= LIMITS(k[2]).max

\* C4: starting from no window record, of six check_rate_limit(u, 'news')
\* calls made within 300 seconds with the store reachable, the first five
\* return allowed = True and the sixth returns allowed = False with a wait
\* greater than 0.
C4_SixthDenied ==
    \A u \in Subjects :
        /\ \A i \in 1..Len(News(u)) : i <= 5 => News(u)[i].allowed
        /\ Len(News(u)) >= 6 =>
              (~News(u)[6].allowed /\ News(u)[6].n > 0)

\* C9: when the store is unreachable (no client, or the store is down),
\* check_rate_limit returns allowed = True with an advisory message, raises
\* nothing and leaves the window record as it was.
C9_LimiterFailOpen ==
    [][\A u \in Subjects :
         (last'.op = "check" /\ last'.user = u /\ ~storeUp /\ last' # last) =>
            /\ last'.val = "True"
            /\ last'.msg.text \in {"No database connection",
                                   "Error checking limit"}
            /\ ~last'.raised
            /\ rate' = rate
      ]_vars

\* a check made during an outage was let through
C9_Witness ==
    /\ last.op = "check" /\ last.val = "True" /\ ~storeUp
    /\ last.msg.text = "Error checking limit"

\* C10: no primitive call raises, whatever store call fails in it; a failed
\* acquire returns True, a failed check returns allowed = True and a failed
\* cache read returns None.
C10_NoRaise ==
    /\ ~last.raised
    /\ last.failed =>
          /\ last.op = "acquire" => last.val = "True"
          /\ last.op = "check" => last.val = "True"
          /\ last.op = "cache_get" => last.val = "None"
          /\ last.op = "is_locked" => last.val = "False"
          /\ ~last.wrote

\* a cache read met a failing store call and reported a miss over a stored,
\* unexpired digest
C10_Witness ==
    /\ last.op = "cache_get" /\ last.at = "get" /\ last.val = "None"
    /\ cache.exists /\ time_time < cache.expires_at

\* ------------------------------------------------- claims on the transaction
\* the stored list holds max_count timestamps or more
Exhausted(doc, a) == doc.exists /\ Len(doc.timestamps) >= LIMITS(a).max

\* the transaction has run on an exhausted record whose first timestamp is
\* window_seconds old or older
C11_Elapsed ==
    /\ txn.user # 0
    /\ Exhausted(txn.read, txn.action)
    /\ txn.now_ts >= txn.read.timestamps[1] + Seconds(LIMITS(txn.action).window)

CountFrom(doc, lo, open) ==
    Cardinality({i \in 1..Len(Stamps(doc)) :
                    IF open THEN Stamps(doc)[i] > lo
                    ELSE Stamps(doc)[i] >= lo})

\* now - window_seconds of the transaction that ran last
TxnWindowStart == txn.now_ts - Seconds(LIMITS(txn.action).window)

TxnDoc == rate[<<txn.user, txn.action>>]

\* oldest timestamp read by the last transaction that survived its pruning
OldestRemaining ==
    CHOOSE t \in {Stamps(txn.read)[i] : i \in 1..Len(Stamps(txn.read))} :
        /\ t > TxnWindowStart
        /\ \A j \in 1..Len(Stamps(txn.read)) :
              Stamps(txn.read)[j] > TxnWindowStart => t <= Stamps(txn.read)[j]

\* oldest_remaining_timestamp + window_seconds - now, as a time.time()
\* difference
ExactWait ==
    OldestRemaining + Seconds(LIMITS(txn.action).window) - txn.now_ts

TxnDenied == txn.user # 0 /\ ~txn.allowed

C14_AllowedIsRecorded ==
    \A k \in Subjects \X Actions :
        \A i \in 1..Len(series[k].res) :
            series[k].res[i].allowed =>
                /\ rate[k].exists
                /\ Len(rate[k].timestamps) >= 1
                /\ series[k].res[i].text = "Remaining"
                /\ series[k].res[i].n \in 0..(LIMITS(k[2]).max - 1)

CacheReturned(op) == cacheCall.op = op /\ ~cacheCall.failed

\* the stored entry is unexpired at the time the last call returned
StoredLive == cache.exists /\ cacheCall.ret_ts < cache.expires_at

\* this step is the return of a call of cache.py
CacheStep(op) == cacheCall' # cacheCall /\ cacheCall'.op = op

\* C16: with the store reachable, get_cached_digest right after
\* set_cached_digest(v, ttl) returns v; it returns the stored content
\* exactly while now < expires_at and None from expires_at on, the entry
\* staying stored; no read changes the entry; is_digest_cached is True
\* exactly when the read returns a value.
C16_RoundTripLazyExpiry ==
    /\ [](CacheReturned("get") =>
            /\ cacheCall.after_set => cacheCall.val = cacheCall.digest
            /\ cacheCall.val = IF StoredLive THEN cache.content ELSE "None")
    /\ [](CacheReturned("is_cached") =>
            (cacheCall.val = "True" <=> StoredLive))
    /\ [][CacheStep("get") \/ CacheStep("is_cached") => cache' = cache]_vars

\* a read right after a set that returned the digest just stored
C16_Witness ==
    /\ CacheReturned("get")
    /\ cacheCall.after_set
    /\ cacheCall.val = cacheCall.digest
    /\ cacheCall.val \in Digests

\* C17: every change of the stored entry installs the whole entry of one
\* set_cached_digest call that was under way, its content together with
\* its own expires_at = now_ts + 60 * ttl_minutes.
C17_WholeEntry ==
    [][cache' # cache =>
          \E p \in Procs :
              /\ setting[p].active
              /\ ~setting'[p].active
              /\ cache' = [exists |-> TRUE,
                           content |-> setting[p].digest,
                           expires_at |-> setting[p].now_ts
                               + Seconds(60 * setting[p].ttl_minutes)]]_vars

\* a set that wrote while another was under way replaced an entry of
\* another content and another expiry, and the entry stored is its own
C17_Witness ==
    /\ CacheReturned("set")
    /\ cacheCall.raced
    /\ cacheCall.overwrote
    /\ cache = [exists |-> TRUE, content |-> cacheCall.digest,
                expires_at |-> cacheCall.now_ts
                    + Seconds(60 * cacheCall.ttl)]

\* C18: a call of cache.py that meets a missing client or a failing store
\* call raises nothing and leaves the stored entry as it was; the read
\* returns None and set_cached_digest returns normally.
C18_CacheFailure ==
    /\ [](cacheCall.failed =>
            /\ ~cacheCall.raised
            /\ cacheCall.op \in {"get", "set"} => cacheCall.val = "None"
            /\ cacheCall.op = "is_cached" => cacheCall.val = "False")
    /\ [][cacheCall' # cacheCall /\ cacheCall'.failed => cache' = cache]_vars

\* a set whose store call failed left another, unexpired entry in place
C18_Witness ==
    /\ cacheCall.op = "set"
    /\ cacheCall.at = "set"
    /\ StoredLive
    /\ cache.content # cacheCall.digest

\* a read that returned at or after expires_at of the stored entry
ReadAfterExpiry ==
    /\ CacheReturned("get")
    /\ cache.exists
    /\ cacheCall.ret_ts >= cache.expires_at

\* C19 as stated: the entry stored by a set_cached_digest that went through
\* has expires_at later than the time.time() the call read, whatever
\* ttl_minutes; a read at or after expires_at returns None.
C19_ExpiryAlwaysFuture ==
    /\ CacheReturned("set") => cache.expires_at > cacheCall.now_ts
    /\ ReadAfterExpiry => cacheCall.val = "None"

\* C19 amended: the same for ttl_minutes > 0.
C19_ExpiryFutureIfPositiveTtl ==
    /\ (CacheReturned("set") /\ cacheCall.ttl > 0) =>
          cache.expires_at > cacheCall.now_ts
    /\ ReadAfterExpiry => cacheCall.val = "None"

\* a set with positive ttl_minutes stored an entry that expires later than
\* the time it returned at
C19_Witness ==
    /\ CacheReturned("set")
    /\ cacheCall.ttl > 0
    /\ cache.expires_at = cacheCall.now_ts + Seconds(60 * cacheCall.ttl)
    /\ cache.expires_at > cacheCall.ret_ts

\* ------------------------------------------------- claims on schema drift
\* C20: a stored document of another shape is read like an absent one and
\* no call raises: acquire on a lock document whose expires_at is absent
\* or no timestamp goes on to write a fresh record; a cache read of an
\* entry whose expires_at is absent or no number, or whose content is
\* absent, returns None; the transaction on a rate document whose
\* timestamps is absent or no list allows the call and stores the list
\* holding the new timestamp alone.
C20_MalformedAsAbsent ==
    /\ [](~last.raised)
    /\ [][\A p \in Procs :
            (pc[p] = "acq_check" /\ Malformed(snap[p])
                /\ pc'[p] # "acq_check") => pc'[p] = "acq_set"]_vars
    /\ [][(CacheStep("get")
            /\ (Malformed(cache) \/ (cache.exists
                                     /\ "content" \notin DOMAIN cache))) =>
            cacheCall'.val = "None"]_vars
    /\ [][(txn' # txn /\ Malformed(txn'.read)) =>
            /\ txn'.allowed
            /\ rate'[<<txn'.user, txn'.action>>] =
                  RateDoc(<<txn'.now_ts>>, txn'.user, txn'.action)]_vars

\* ------------------------------------------------------- claims on handlers

\* the primitive a call belongs to
Component(op) ==
    CASE op \in {"is_locked", "acquire", "release"} -> "lock"
      [] op = "check_rate_limit" -> "limiter"
      [] OTHER -> "cache"

\* the coordination checks among the calls of a run: the lock checks, the
\* limiter check and the cache lookups
Checks(calls) ==
    SelectSeq(calls, LAMBDA op : op \in {"is_locked", "acquire",
                                         "check_rate_limit",
                                         "is_digest_cached",
                                         "get_cached_digest"})

Rank(op) ==
    CASE Component(op) = "lock" -> 1
      [] Component(op) = "limiter" -> 2
      [] OTHER -> 3

IsPrefix(a, b) ==
    /\ Len(a) <= Len(b)
    /\ \A i \in 1..Len(a) : a[i] = b[i]

CachedBranch == <<"is_digest_cached", "get_cached_digest">>

FreshBranch == <<"is_digest_cached", "is_locked", "check_rate_limit",
                 "acquire">>

\* C21 as stated: in every run of news_command the checks made so far start
\* with the lock check and come in the order lock, limiter, cache.
C21_LockLimiterCache ==
    \A p \in Procs :
        handler[p].kind = "news" =>
            LET c == Checks(handler[p].calls)
            IN  /\ c # <<>> => Component(c[1]) = "lock"
                /\ \A i, j \in 1..Len(c) : i < j => Rank(c[i]) <= Rank(c[j])

\* C21: in every run of news_command the checks made so far are the first
\* ones of: the cache lookup is_digest_cached, then on a hit
\* get_cached_digest and nothing else, on a miss is_locked, then
\* check_rate_limit, then acquire.
C21_CacheLockLimiterLock ==
    \A p \in Procs :
        handler[p].kind = "news" =>
            \/ IsPrefix(Checks(handler[p].calls), CachedBranch)
            \/ IsPrefix(Checks(handler[p].calls), FreshBranch)

\* a /news run on a cache miss has made all its checks and is generating
C21_Witness ==
    \E p \in Procs :
        /\ handler[p].kind = "news"
        /\ Generating(handler[p])
        /\ Checks(handler[p].calls) = FreshBranch

\* the run h holds a grant of the lock that has not yet reached its ttl
WithinTtl(h) == h.granted /\ clock < h.since + LOCK_TTL

\* C22: no two runs, of news_command or refresh_callback, for the same user
\* are in their fetch-and-summarize section at once while each is within
\* the ttl of its grant (the store is reachable throughout).
C22_OneGenerationPerUser ==
    \A p, q \in Procs :
        (/\ p # q
         /\ UserOf(p) = UserOf(q)
         /\ Generating(handler[p]) /\ WithinTtl(handler[p])
         /\ Generating(handler[q]) /\ WithinTtl(handler[q])) => FALSE

\* C24: every run that is generating has had its check_rate_limit return
\* allowed = True, and no user has more than 5 generations started within
\* one 300 s window.
C24_GenerationsRateLimited ==
    /\ \A p \in Procs : Generating(handler[p]) => handler[p].allowed
    /\ \A u \in Users : started[u].n <= LIMITS("news").max

\* C27: a run that has ended after its acquire returned True has called
\* release, whichever way it ended.
C27_AcquireThenRelease ==
    \A p \in Procs :
        (handler[p].at = "done" /\ handler[p].granted) => handler[p].released

\* the positions of a run after its acquire returned True
AfterGrant == {"progress", "generate", "set_cache", "release"}

\* C28: a run goes past its acquire only when the acquire returned True; a
\* run whose acquire did not return True has not called release; and the
\* step in which the acquire of a run returns False ends the run, leaves
\* the lock record as it is and starts no generation.
C28_RejectedDoesNothing ==
    /\ [](\A p \in Procs :
             /\ handler[p].at \in AfterGrant => handler[p].granted
             /\ ~handler[p].granted => ~handler[p].released)
    /\ [][\A p \in Procs :
             (/\ handler[p].at = "acquire"
              /\ handler'[p] # handler[p]
              /\ last'.val = "False") =>
                 /\ handler'[p].at = "done"
                 /\ locks' = locks
                 /\ started' = started]_vars

\* the acquire of a /news run returned False because the lock of its user
\* is held by a run that is generating, and the record is the holder's
C28_Witness ==
    \E p, q \in Procs :
        /\ handler[p].kind = "news"
        /\ handler[p].at = "done"
        /\ handler[p].exit = "acquire"
        /\ last.op = "acquire" /\ last.val = "False"
        /\ UserOf(q) = UserOf(p)
        /\ Generating(handler[q])
        /\ writer[UserOf(p)] = q
        /\ LockValid(locks[UserOf(p)], clock)

\* the run h of news_command was answered from the cache
AnsweredFromCache(h) ==
    h.kind = "news" /\ h.at = "done" /\ h.exit = "cached_reply" /\ ~h.raised

\* the positions of the cached branch of news_command
InCachedBranch == {"cached_get", "cached_reply"}

\* C25: a /news run answered from the cache has called neither the lock nor
\* the limiter, and every step of a run that leads into or through the
\* cached branch leaves the lock records and the rate records as they are.
C25_CachedTouchesNothing ==
    /\ [](\A p \in Procs :
             AnsweredFromCache(handler[p]) =>
                 \A i \in 1..Len(handler[p].calls) :
                     Component(handler[p].calls[i]) = "cache")
    /\ [][\A p \in Procs :
             (/\ handler'[p] # handler[p]
              /\ \/ handler'[p].at \in InCachedBranch
                 \/ handler[p].at \in InCachedBranch) =>
                 /\ locks' = locks
                 /\ rate' = rate]_vars

\* a /news run has been answered from the cache while a lock record of its
\* user is stored
C25_Witness ==
    \E p \in Procs :
        /\ AnsweredFromCache(handler[p])
        /\ handler[p].digest \in Digests
        /\ locks[UserOf(p)].exists

\* C29: a run of news_command in its cached branch, past get_cached_digest,
\* holds a digest.
C29_CachedReadPresent ==
    \A p \in Procs :
        handler[p].at = "cached_reply" => handler[p].digest # "None"

\* the messages with which check_rate_limit fails open
FailOpenTexts == {"No database connection", "Error checking limit"}

\* C26: a check_rate_limit call that returned a fail-open result had no
\* client or met a failing store call; with a client and the store
\* reachable it returns the transaction's result, never a fail-open one.
C26_FailOpenOnlyOnFailure ==
    (last.op = "check" /\ last.msg.text \in FailOpenTexts) => last.failed

\* the timestamps of the record the most recent transaction read that were
\* window seconds old or older when it ran
Stale(doc) ==
    SelectSeq(Stamps(doc), LAMBDA ts : ts <= TxnWindowStart)

C23_AlwaysOk == web.at = "returned" => web.status = 200

\* ------------------------------------------------- claims on the record keys

\* check_rate_limit called for every subject and action and the lock taken
\* and released by every handler instance, on a reachable store, all within
\* one clock step
NextKeys ==
    \/ \E u \in Subjects, a \in Actions :
          CheckRateLimit(u, a) /\ LogCheck(u, a)
          /\ UNCHANGED hvars
    \/ \E p \in Procs : Construct(p)
          /\ UNCHANGED hvars
    \/ \E p \in Procs : AcquireGet(p)
          /\ UNCHANGED hvars
    \/ \E p \in Procs : AcquireCheck(p)
          /\ UNCHANGED hvars
    \/ \E p \in Procs : AcquireSet(p)
          /\ UNCHANGED hvars
    \/ \E p \in Procs : Release(p)
          /\ UNCHANGED hvars

SpecKeys == Init /\ [][NextKeys]_vars

\* doc_id = f"rate_limit_{user_id}_{action}": the key of the one document
\* check_rate_limit(u, a) is given a reference to
doc_id(u, a) == <<u, a>>

\* self.lock_id = f"{lock_name}_{user_id}", lock_name being the same at
\* every call site: the key of the one document instance p works on
lock_id(p) == UserOf(p)

\* C31: a call check_rate_limit(u, a) changes no record but the one of
\* <<u, a>>, a step of acquire or release changes no record but the one of
\* its own lock id, and a call for an action that is not in the table, when
\* it is allowed on a reachable store, is counted in the record of that
\* subject and action under the default limits, 30 per 60 s.
C31_KeysIndependent ==
    /\ [][\A k \in Subjects \X Actions :
             LET \* the timestamps of the record of k still in the default
                 \* window at time_time
                 kept == Recent(rate[k], time_time - Seconds(60))
             IN  (last'.op = "check" /\ series'[k] # series[k]) =>
                    /\ k = doc_id(last'.user, k[2])
                    /\ \A j \in (Subjects \X Actions) \ {k} :
                          rate'[j] = rate[j]
                    /\ locks' = locks
                    /\ cache' = cache
                    /\ (k[2] = "other" /\ last'.val = "True") =>
                          /\ rate'[k] = RateDoc(Append(kept, time_time),
                                                k[1], k[2])
                          /\ last'.msg = [text |-> "Remaining",
                                          n |-> 30 - (Len(kept) + 1)]]_vars
    /\ [][\A p \in Procs : pc'[p] # pc[p] =>
             /\ \A u \in Users \ {lock_id(p)} : locks'[u] = locks[u]
             /\ rate' = rate
             /\ cache' = cache]_vars

\* ---------------------------------------------------- claims on is_locked

\* one handler instance serving /news commands one after the other, while
\* time passes, the store fails and recovers and another writer leaves
\* lock documents of another shape
NextNewsDrift ==
    \/ NextNews
    \/ \E u \in Users, sh \in {"missing", "junk"} : DriftLock(u, sh)

SpecNewsDrift == Init /\ [][NextNewsDrift]_vars

\* C32: is_locked returns True exactly when the store is reachable and the
\* lock record of that id exists with expires_at > now, it changes no
\* record, and it returns False, raising nothing, when there is no client
\* or the store fails; acquire returns False exactly when the record it
\* read exists with expires_at > now, so the two agree on any record and
\* instant.
C32_IsLockedAgrees ==
    /\ [][\A p \in Procs :
             LET doc == locks[UserOf(p)]
                 \* the lock record exists with expires_at > now
                 unexpired == /\ doc.exists
                              /\ Shape(doc) = "ok"
                              /\ doc.expires_at > clock
             IN  (handler[p].at = "is_locked"
                    /\ handler'[p].at # "is_locked")
                 => /\ last'.op = "is_locked"
                    /\ ~last'.raised
                    /\ last'.val \in {"True", "False"}
                    /\ storeUp => (last'.val = "True" <=> unexpired)
                    /\ (~storeUp \/ last'.failed) => last'.val = "False"
                    /\ locks' = locks /\ rate' = rate /\ cache' = cache]_vars
    /\ [][\A p \in Procs :
             LET doc == snap[p]
                 \* the lock record acquire read exists with expires_at > now
                 unexpired == /\ doc.exists
                              /\ Shape(doc) = "ok"
                              /\ doc.expires_at > clock
             IN  (pc[p] = "acq_check" /\ pc'[p] # "acq_check")
                 => ((last'.op = "acquire" /\ last'.val = "False"
                        /\ pc'[p] = "idle")
                     <=> unexpired)]_vars

\* is_locked has just answered True on a reachable store holding an
\* unexpired lock record, and the /news command ended there
C32_Witness ==
    /\ last.op = "is_locked"
    /\ last.val = "True"
    /\ storeUp
    /\ locks[last.user].exists
    /\ locks[last.user].expires_at > clock
    /\ \E p \in Procs : /\ handler[p].exit = "is_locked"
                        /\ UserOf(p) = last.user

\* ------------------------------------------- claims on retry_with_backoff

\* calls of a wrapped function one after the other, with every argument of
\* the decorator and every way the invocations can end; an invocation and a
\* sleep under way end
NextRetry ==
    \/ \E n \in 0..MaxRetries, b \in BaseDelays, m \in MaxDelays,
          e \in ExponentialBases : RetryCall(n, b, m, e)
    \/ \E outcome \in InvocationOutcomes : RetryInvoke(outcome)
    \/ RetrySleep

SpecRetry ==
    /\ Init
    /\ [][NextRetry]_vars
    /\ WF_vars((\E outcome \in InvocationOutcomes : RetryInvoke(outcome))
                  \/ RetrySleep)

\* C33: a call of a function wrapped by retry_with_backoff(max_retries = n)
\* ends, having invoked the function at most n + 1 times: it returns the
\* value of the first invocation that succeeds, raises the exception of the
\* (n + 1)-th invocation when all n + 1 fail, raises an exception that is
\* not in `exceptions` from the invocation that raised it, and invokes
\* nothing more afterwards; between invocations k and k + 1 it sleeps
\* min(base_delay * exponential_base^(k - 1), max_delay), so the waits do
\* not decrease and none exceeds max_delay.
C33_BoundedRetries ==
    /\ [](retry.invoked <= retry.max_retries + 1)
    /\ [](retry.at = "returned" =>
             /\ retry.result = retry.invoked
             /\ retry.exc.id = 0
             /\ Len(retry.waits) = retry.invoked - 1)
    /\ [](retry.at = "raised" =>
             /\ retry.exc.id = retry.invoked
             /\ retry.result = 0
             /\ Len(retry.waits) = retry.invoked - 1
             /\ retry.exc.listed => retry.invoked = retry.max_retries + 1)
    /\ [](retry.at = "invoke" => Len(retry.waits) = retry.invoked)
    /\ [](retry.at = "sleep" => Len(retry.waits) = retry.invoked - 1)
    /\ [](Len(retry.waits) <= retry.max_retries)
    /\ [](\A k \in 1..Len(retry.waits) :
             /\ retry.waits[k] = min(retry.base_delay
                                       * pow(retry.exponential_base, k - 1),
                                     retry.max_delay)
             /\ retry.waits[k] <= retry.max_delay
             /\ k > 1 => retry.waits[k - 1] <= retry.waits[k])
    /\ [][retry.at \in {"returned", "raised"} => retry'.invoked = 0]_vars
    /\ (retry.at \in {"invoke", "sleep"}
          ~> retry.at \in {"returned", "raised"})

\* all max_retries + 1 invocations failed and the last exception was raised,
\* after waits that first grew and then were capped at max_delay
C33_Witness ==
    /\ retry.at = "raised"
    /\ retry.exc.listed
    /\ retry.max_retries >= 2
    /\ retry.invoked = retry.max_retries + 1
    /\ retry.waits[1] < retry.waits[2]
    /\ retry.waits[Len(retry.waits)] = retry.max_delay
====
